---- MODULE Spec2Model ----
(***************************************************************************)
(* A model of the rsjson recursive-descent JSON parser                     *)
(* (src/src/parser/mod.rs, src/src/lib.rs).                                *)
(*                                                                         *)
(* A character is its Unicode code point, an input text is a sequence of   *)
(* code points, and the Peekable<CharIndices> cursor is the 1-based index  *)
(* of the next character; the byte offset CharIndices yields for that      *)
(* character is Offset(s, p).  Every parsing function of the source is an  *)
(* operator from (text, cursor) to a result record holding the value or    *)
(* the error and the cursor the function leaves behind.                    *)
(***************************************************************************)
EXTENDS Integers, Sequences, FiniteSets, TLC

VARIABLES input, origin, called, outcome

vars == <<input, origin, called, outcome>>

(***************************************************************************)
(* Character constants of the source.                                      *)
(***************************************************************************)
ESCAPE == 92
OBJECT_START == 123
OBJECT_END == 125
ARRAY_START == 91
ARRAY_END == 93
COMMA == 44
COLON == 58
MINUS == 45
PLUS == 43
QUOTE == 34
DOT == 46
UNICODE_ESCAPE == 117
TRUE_START == 116
FALSE_START == 102
NULL_START == 110
NULL == <<110, 117, 108, 108>>
BOOL_TRUE == <<116, 114, 117, 101>>
BOOL_FALSE == <<102, 97, 108, 115, 101>>
ESCAPABLE == <<34, 92, 47, 102, 110, 114, 116, 98>>

ERROR_ENDED_UNEXPECTEDLY == "String ended unexpectedly"

\* Character literals that appear in the match arms of the source.
DIGIT_0 == 48
DIGIT_1 == 49
DIGIT_9 == 57
LOWER_E == 101
UPPER_E == 69
CTRL_FIRST == 0
CTRL_LAST == 31

(***************************************************************************)
(* Values: JSONValue is a tagged tuple.  A HashMap is a function from its  *)
(* keys to its values; a Vec and a String are sequences.                   *)
(***************************************************************************)
JSONNull == <<"JSONNull">>
JSONString(str) == <<"JSONString", str>>
JSONBool(b) == <<"JSONBool", b>>
JSONNumber(n) == <<"JSONNumber", n>>
JSONObject(map) == <<"JSONObject", map>>
JSONArray(vec) == <<"JSONArray", vec>>

EmptyMap == [k \in {} |-> JSONNull]

\* HashMap::insert: the new value replaces any value the key had.
HashMapInsertKeepFirst(map, key, value) ==
    [k \in DOMAIN map \cup {key} |-> IF k \in DOMAIN map THEN map[k] ELSE value]

HashMapInsert(map, key, value) ==
    [k \in DOMAIN map \cup {key} |-> IF k = key THEN value ELSE map[k]]

(***************************************************************************)
(* Errors: JSONParseError carries one formatted reason string.  The model  *)
(* keeps the format's message and each of its arguments apart.             *)
(***************************************************************************)
NoChar == -1
NoPosition == -1

JSONParseError(msg, ch, position, expected, text) ==
    [ch |-> ch, expected |-> expected, msg |-> msg, position |-> position, text |-> text]

make_err(msg) == JSONParseError(msg, NoChar, NoPosition, NoChar, <<>>)

unexpected_eof == make_err(ERROR_ENDED_UNEXPECTEDLY)

unexpected_character(position, ch) ==
    JSONParseError("Unexpected charachter", ch, position, NoChar, <<>>)

expected_character(position, ch, expected) ==
    JSONParseError("Unexpected charachter", ch, position, expected, <<>>)

invalid_escape_sequence(position, seq) ==
    JSONParseError("Invalid escape sequence", NoChar, position, NoChar, seq)

unable_to_parse_number(num) ==
    JSONParseError("Unable to parse number", NoChar, NoPosition, NoChar, num)

\* A variant of the error below: the end-of-input message instead.
empty_string_provided_as_eof == make_err(ERROR_ENDED_UNEXPECTEDLY)

empty_string_provided == make_err("Empty string provided")

(***************************************************************************)
(* Results of a parsing function: Ok(value), Err(error), or a panic (an    *)
(* unwrap of None, an arithmetic underflow).  pos is the cursor left.      *)
(* The error, the kind and the cursor come before the value: two results   *)
(* are told apart by them before their values, which may be of different   *)
(* kinds and then cannot be compared, are looked at.                       *)
(***************************************************************************)
NoValue == <<"NoValue">>
NoError == make_err("")

Ok(v, p) == [err |-> NoError, ok |-> TRUE, panic |-> FALSE, pos |-> p, val |-> v]
Err(e, p) == [err |-> e, ok |-> FALSE, panic |-> FALSE, pos |-> p, val |-> NoValue]
Panic(p) == [err |-> NoError, ok |-> FALSE, panic |-> TRUE, pos |-> p, val |-> NoValue]

(***************************************************************************)
(* The cursor: Peekable<CharIndices>.                                      *)
(***************************************************************************)
\* The number of bytes of a character's UTF-8 encoding.
Utf8Len(ch) ==
    IF ch < 128 THEN 1 ELSE IF ch < 2048 THEN 2 ELSE IF ch < 65536 THEN 3 ELSE 4

RECURSIVE Utf8Bytes(_)
Utf8Bytes(str) ==
    IF str = <<>> THEN 0 ELSE Utf8Len(Head(str)) + Utf8Bytes(Tail(str))

\* The byte offset CharIndices pairs with the character at index p.
Offset(s, p) == Utf8Bytes(SubSeq(s, 1, p - 1))

AtEnd(s, p) == p > Len(s)

\* chars.next().unwrap(): a panic when no character is left, else the
\* result r of what follows with the character taken.
unwrap_next(s, p, r) == IF AtEnd(s, p) THEN Panic(p) ELSE r

\* chars.peek() through next_char: the next character, or NoChar at the end.
next_char(s, p) == IF AtEnd(s, p) THEN NoChar ELSE s[p]

(***************************************************************************)
(* Lexical primitives.                                                     *)
(***************************************************************************)
\* A variant of is_whitespace that takes every White_Space character below
\* U+0100 (char::is_whitespace): also U+000B, U+000C, U+0085 and U+00A0.
is_whitespace_unicode(ch) == ch \in {9, 10, 11, 12, 13, 32, 133, 160}

is_whitespace(ch) == ch \in {9, 10, 13, 32}

RECURSIVE consume_spaces(_, _)
consume_spaces(s, p) ==
    IF AtEnd(s, p) THEN p
    ELSE IF is_whitespace(s[p]) THEN consume_spaces(s, p + 1)
    ELSE p

read_known_char(s, p, expected) ==
    IF AtEnd(s, p) THEN Err(unexpected_eof, p)
    ELSE IF s[p] # expected
         THEN Err(expected_character(Offset(s, p), s[p], expected), p + 1)
         ELSE Ok(NoValue, p + 1)

RECURSIVE parse_const_from(_, _, _, _, _)
parse_const_from(s, p, str_value, k, value) ==
    IF k > Len(str_value) THEN Ok(value, p)
    ELSE IF AtEnd(s, p) THEN Err(unexpected_eof, p)
    ELSE IF str_value[k] # s[p] THEN Err(unexpected_character(Offset(s, p), s[p]), p + 1)
    ELSE parse_const_from(s, p + 1, str_value, k + 1, value)

parse_const(s, p, str_value, value) == parse_const_from(s, p, str_value, 1, value)

parse_true(s, p) == parse_const(s, p, BOOL_TRUE, TRUE)

parse_false(s, p) == parse_const(s, p, BOOL_FALSE, FALSE)

parse_null(s, p) == parse_const(s, p, NULL, NoValue)

(***************************************************************************)
(* Strings and escapes.                                                    *)
(***************************************************************************)
IsEscapable(ch) == \E k \in 1..Len(ESCAPABLE) : ESCAPABLE[k] = ch

\* A variant of convert_escaped without the arm for 'b'.
convert_escaped_without_b(ch) ==
    CASE ch = 116 -> 9
      [] ch = 114 -> 13
      [] ch = 110 -> 10
      [] ch = 102 -> 12
      [] OTHER -> ch

convert_escaped(ch) ==
    CASE ch = 116 -> 9
      [] ch = 114 -> 13
      [] ch = 110 -> 10
      [] ch = 102 -> 12
      [] ch = 98 -> 8
      [] OTHER -> ch

\* char::to_digit(16): the value of an ASCII hexadecimal digit, or -1 (None).
to_digit_16(ch) ==
    IF ch >= 48 /\ ch <= 57 THEN ch - 48
    ELSE IF ch >= 97 /\ ch <= 102 THEN ch - 97 + 10
    ELSE IF ch >= 65 /\ ch <= 70 THEN ch - 65 + 10
    ELSE -1

\* char::is_digit(10): ASCII decimal digits only.
is_digit_10(ch) == ch >= 48 /\ ch <= 57

\* char::from_u32: a surrogate or a value above U+10FFFF is no char (None).
from_u32_is_some(ord) == ~(ord >= 55296 /\ ord <= 57343) /\ ord <= 1114111

\* The loop of read_escape_char over the four hexadecimal digits.  i is the
\* offset of the character after the backslash (the 'u'), ii the offset of
\* the digit read.  Both error values are built before their Option is
\* inspected (ok_or is eager), so their usize subtractions are evaluated on
\* every iteration.
RECURSIVE read_unicode_digits(_, _, _, _, _, _)
\* A variant of read_unicode_digit that reports the sequence without the
\* character that is no digit.
read_unicode_digit_short_seq(s, p, i, j, ord, seq, ii) ==
    IF ii - j - 2 < 0 THEN Panic(p + 1)
    ELSE IF to_digit_16(s[p]) = -1
         THEN Err(invalid_escape_sequence(ii - j - 2, SubSeq(seq, 1, Len(seq) - 1)), p + 1)
    ELSE read_unicode_digits(s, p + 1, i, j + 1, ord * 16 + to_digit_16(s[p]), seq)

read_unicode_digit(s, p, i, j, ord, seq, ii) ==
    IF ii - j - 2 < 0 THEN Panic(p + 1)
    ELSE IF to_digit_16(s[p]) = -1 THEN Err(invalid_escape_sequence(ii - j - 2, seq), p + 1)
    ELSE read_unicode_digits(s, p + 1, i, j + 1, ord * 16 + to_digit_16(s[p]), seq)

read_unicode_digits(s, p, i, j, ord, seq) ==
    IF j = 4
    THEN IF i - 2 < 0 THEN Panic(p)
         ELSE IF from_u32_is_some(ord) THEN Ok(<<ord>>, p)
         ELSE Err(invalid_escape_sequence(i - 2, seq), p)
    ELSE IF AtEnd(s, p) THEN Err(unexpected_eof, p)
    ELSE read_unicode_digit(s, p, i, j, ord, Append(seq, s[p]), Offset(s, p))

\* A variant of read_escape_char_at whose error offsets are i - 3.
read_escape_char_at_minus_3(s, p, i) ==
    IF IsEscapable(s[p]) THEN Ok(<<convert_escaped(s[p])>>, p + 1)
    ELSE IF s[p] = UNICODE_ESCAPE
         THEN read_unicode_digits(s, p + 1, i, 0, 0, <<ESCAPE, UNICODE_ESCAPE>>)
         ELSE IF i - 3 < 0 THEN Panic(p + 1)
              ELSE Err(invalid_escape_sequence(i - 3, <<ESCAPE, s[p]>>), p + 1)

read_escape_char_at(s, p, i) ==
    IF IsEscapable(s[p]) THEN Ok(<<convert_escaped(s[p])>>, p + 1)
    ELSE IF s[p] = UNICODE_ESCAPE
         THEN read_unicode_digits(s, p + 1, i, 0, 0, <<ESCAPE, UNICODE_ESCAPE>>)
         ELSE IF i - 2 < 0 THEN Panic(p + 1)
              ELSE Err(invalid_escape_sequence(i - 2, <<ESCAPE, s[p]>>), p + 1)

read_escape_char(s, p) ==
    IF AtEnd(s, p) THEN Err(unexpected_eof, p)
    ELSE read_escape_char_at(s, p, Offset(s, p))

RECURSIVE parse_str_loop(_, _, _)
\* result.push_str(&read_escape_char(chars)?)
parse_str_push_escape(s, e, result) ==
    IF ~e.ok THEN e ELSE parse_str_loop(s, e.pos, result \o e.val)

\* A variant of parse_str_loop whose control-character arm stops below
\* U+001F.
parse_str_loop_short_range(s, p, result) ==
    IF AtEnd(s, p) THEN Err(unexpected_eof, p)
    ELSE IF s[p] = QUOTE THEN Ok(result, p + 1)
    ELSE IF s[p] = ESCAPE THEN parse_str_push_escape(s, read_escape_char(s, p + 1), result)
    ELSE IF s[p] >= CTRL_FIRST /\ s[p] < CTRL_LAST
         THEN Err(unexpected_character(Offset(s, p), s[p]), p + 1)
    ELSE parse_str_loop(s, p + 1, Append(result, s[p]))

parse_str_loop(s, p, result) ==
    IF AtEnd(s, p) THEN Err(unexpected_eof, p)
    ELSE IF s[p] = QUOTE THEN Ok(result, p + 1)
    ELSE IF s[p] = ESCAPE THEN parse_str_push_escape(s, read_escape_char(s, p + 1), result)
    ELSE IF s[p] >= CTRL_FIRST /\ s[p] <= CTRL_LAST
         THEN Err(unexpected_character(Offset(s, p), s[p]), p + 1)
    ELSE parse_str_loop(s, p + 1, Append(result, s[p]))

parse_str_opened(s, q) == IF ~q.ok THEN q ELSE parse_str_loop(s, q.pos, <<>>)

parse_str(s, p) == parse_str_opened(s, read_known_char(s, p, QUOTE))

(***************************************************************************)
(* Numbers.                                                                *)
(***************************************************************************)
\* The loop of read_digits: Err at the end of input only when no digit was
\* read; a non-digit ends the run, also an empty one.
RECURSIVE read_digits_loop(_, _, _)
\* A variant of read_digits_loop that takes the character ending the run.
read_digits_loop_takes_stop(s, p, result) ==
    IF AtEnd(s, p)
    THEN IF Len(result) > 0 THEN Ok(result, p) ELSE Err(unexpected_eof, p)
    ELSE IF is_digit_10(s[p]) THEN read_digits_loop(s, p + 1, Append(result, s[p]))
    ELSE Ok(result, p + 1)

read_digits_loop(s, p, result) ==
    IF AtEnd(s, p)
    THEN IF Len(result) > 0 THEN Ok(result, p) ELSE Err(unexpected_eof, p)
    ELSE IF is_digit_10(s[p]) THEN read_digits_loop(s, p + 1, Append(result, s[p]))
    ELSE Ok(result, p)

read_digits(s, p) == read_digits_loop(s, p, <<>>)

\* read_fraction after the dot: digits is what read_digits returned.
read_fraction_digits(s, digits) ==
    IF ~digits.ok THEN digits
    ELSE IF Len(digits.val) = 0
         THEN IF AtEnd(s, digits.pos) THEN Err(unexpected_eof, digits.pos)
              ELSE Err(unexpected_character(Offset(s, digits.pos), s[digits.pos]),
                       digits.pos + 1)
         ELSE Ok(<<DOT>> \o digits.val, digits.pos)

\* A variant of read_fraction without the arm that rejects a digit.
read_fraction_digit_allowed(s, p) ==
    IF AtEnd(s, p) THEN Ok(<<>>, p)
    ELSE IF s[p] = DOT THEN read_fraction_digits(s, read_digits(s, p + 1))
    ELSE Ok(<<>>, p)

read_fraction(s, p) ==
    IF AtEnd(s, p) THEN Ok(<<>>, p)
    ELSE IF s[p] = DOT THEN read_fraction_digits(s, read_digits(s, p + 1))
    ELSE IF s[p] >= DIGIT_0 /\ s[p] <= DIGIT_9
         THEN unwrap_next(s, p, Err(unexpected_character(Offset(s, p), s[p]), p + 1))
         ELSE Ok(<<>>, p)

(***************************************************************************)
(* str::parse::<f64> on the literal parse_num assembles.  The literal is   *)
(* accepted when it is an optional sign, a run of digits, an optional '.'   *)
(* with a run of digits, and an optional exponent (e or E, an optional     *)
(* sign, one or more digits), with at least one digit before the exponent. *)
(* The double is kept as the decimal coef * 10^exp it is nearest to, with  *)
(* trailing zeros of coef moved into exp, so that 10, 1e1 and 10.0 are one *)
(* value and 0, -0 and 0e5 are one value (f64 equality); beyond the range  *)
(* of f64 it is Infinity or zero.  Exact for literals of at most 8         *)
(* significant digits.                                                     *)
(***************************************************************************)
F64Infinity(negative) == <<"inf", negative>>
F64Finite(coef, exp) == <<coef, exp>>

RECURSIVE DigitsEnd(_, _)
DigitsEnd(str, k) ==
    IF k <= Len(str) /\ is_digit_10(str[k]) THEN DigitsEnd(str, k + 1) ELSE k

RECURSIVE DecimalValue(_)
DecimalValue(digits) ==
    IF digits = <<>> THEN 0
    ELSE 10 * DecimalValue(SubSeq(digits, 1, Len(digits) - 1)) + (digits[Len(digits)] - 48)

RECURSIVE NumDigits(_)
NumDigits(n) == IF n < 10 THEN 1 ELSE 1 + NumDigits(n \div 10)

RECURSIVE Pow10(_)
Pow10(n) == IF n <= 0 THEN 1 ELSE 10 * Pow10(n - 1)

RECURSIVE StripZeros(_, _)
StripZeros(coef, exp) ==
    IF coef = 0 THEN <<0, 0>>
    ELSE IF coef % 10 = 0 THEN StripZeros(coef \div 10, exp + 1)
    ELSE <<coef, exp>>

\* The first eight significant digits of the largest finite double
\* (1.7976931348623157e308) and of half the smallest subnormal
\* (2.4703282292062327e-324), and the decimal magnitudes they sit at.
F64_MAX_LEAD == 17976931
F64_MAX_MAGNITUDE == 309
F64_ZERO_LEAD == 24703282
F64_ZERO_MAGNITUDE == -323

\* The first eight significant digits of a coefficient of nd digits.
LeadingDigits(coef, nd) ==
    IF nd <= 8 THEN coef * Pow10(8 - nd) ELSE coef \div Pow10(nd - 8)

\* coef has nd digits and no trailing zero; m is the decimal magnitude.
F64InRange(negative, coef, exp, m, lead) ==
    IF m > F64_MAX_MAGNITUDE \/ (m = F64_MAX_MAGNITUDE /\ lead > F64_MAX_LEAD)
    THEN F64Infinity(negative)
    ELSE IF m < F64_ZERO_MAGNITUDE \/ (m = F64_ZERO_MAGNITUDE /\ lead <= F64_ZERO_LEAD)
         THEN F64Finite(0, 0)
         ELSE F64Finite(IF negative THEN 0 - coef ELSE coef, exp)

F64Normalised(negative, n, nd) ==
    IF n[1] = 0 THEN F64Finite(0, 0)
    ELSE F64InRange(negative, n[1], n[2], nd + n[2], LeadingDigits(n[1], nd))

F64Stripped(negative, n) == F64Normalised(negative, n, NumDigits(n[1]))

ToF64(negative, coef, exp) == F64Stripped(negative, StripZeros(coef, exp))

\* The exponent digits num[d..e-1] end the literal.
ParseF64Exponent(num, negative, intd, frac, expNegative, expd, e) ==
    IF Len(intd) + Len(frac) >= 1 /\ Len(expd) >= 1 /\ e = Len(num) + 1
    THEN [ok |-> TRUE,
          val |-> ToF64(negative, DecimalValue(intd \o frac),
                        (IF expNegative THEN 0 - DecimalValue(expd) ELSE DecimalValue(expd))
                            - Len(frac))]
    ELSE [ok |-> FALSE, val |-> F64Finite(0, 0)]

ParseF64ExponentDigits(num, negative, intd, frac, expNegative, d, e) ==
    ParseF64Exponent(num, negative, intd, frac, expNegative, SubSeq(num, d, e - 1), e)

\* The mantissa ends before index c.
ParseF64Mantissa(num, negative, intd, frac, c) ==
    IF c <= Len(num) /\ num[c] \in {LOWER_E, UPPER_E}
    THEN IF c + 1 <= Len(num) /\ num[c + 1] \in {MINUS, PLUS}
         THEN ParseF64ExponentDigits(num, negative, intd, frac, num[c + 1] = MINUS,
                                     c + 2, DigitsEnd(num, c + 2))
         ELSE ParseF64ExponentDigits(num, negative, intd, frac, FALSE,
                                     c + 1, DigitsEnd(num, c + 1))
    ELSE IF Len(intd) + Len(frac) >= 1 /\ c = Len(num) + 1
         THEN [ok |-> TRUE, val |-> ToF64(negative, DecimalValue(intd \o frac), 0 - Len(frac))]
         ELSE [ok |-> FALSE, val |-> F64Finite(0, 0)]

ParseF64Fraction(num, negative, intd, b, c) ==
    ParseF64Mantissa(num, negative, intd, SubSeq(num, b + 1, c - 1), c)

\* The integer digits are num[a..b-1].
ParseF64Integer(num, negative, a, b) ==
    IF b <= Len(num) /\ num[b] = DOT
    THEN ParseF64Fraction(num, negative, SubSeq(num, a, b - 1), b, DigitsEnd(num, b + 1))
    ELSE ParseF64Mantissa(num, negative, SubSeq(num, a, b - 1), <<>>, b)

ParseF64Signed(num, negative, a) == ParseF64Integer(num, negative, a, DigitsEnd(num, a))

ParseF64(num) ==
    IF Len(num) >= 1 /\ num[1] \in {MINUS, PLUS}
    THEN ParseF64Signed(num, num[1] = MINUS, 2)
    ELSE ParseF64Signed(num, FALSE, 1)

\* parse_num after 'e' or 'E' and its optional sign: the exponent digits.
parse_num_exponent_digits(num, digits) ==
    IF ~digits.ok THEN digits ELSE Ok(num \o digits.val, digits.pos)

\* parse_num after the fraction: the optional exponent, which leaves the
\* assembled literal.  A '-' is kept in the literal, a '+' is dropped.
parse_num_exponent_sign(s, p, num) ==
    IF AtEnd(s, p) THEN Err(unexpected_eof, p)
    ELSE IF s[p] = MINUS
         THEN parse_num_exponent_digits(Append(num, MINUS), read_digits(s, p + 1))
    ELSE IF s[p] = PLUS THEN parse_num_exponent_digits(num, read_digits(s, p + 1))
    ELSE parse_num_exponent_digits(num, read_digits(s, p))

parse_num_exponent(s, p, num) ==
    IF AtEnd(s, p) THEN Ok(num, p)
    ELSE IF s[p] = LOWER_E \/ s[p] = UPPER_E
         THEN unwrap_next(s, p, parse_num_exponent_sign(s, p + 1, Append(num, s[p])))
         ELSE Ok(num, p)

parse_num_fraction(s, num, fraction) ==
    IF ~fraction.ok THEN fraction
    ELSE parse_num_exponent(s, fraction.pos, num \o fraction.val)

parse_num_integer(s, num, int) ==
    IF ~int.ok THEN int
    ELSE parse_num_fraction(s, num \o int.val, read_fraction(s, int.pos))

\* parse_num after the optional minus sign, which is in num.
parse_num_unsigned(s, p, num) ==
    IF AtEnd(s, p) THEN Err(unexpected_eof, p)
    ELSE IF s[p] = DIGIT_0 THEN parse_num_integer(s, num, Ok(<<s[p]>>, p + 1))
    ELSE IF s[p] >= DIGIT_1 /\ s[p] <= DIGIT_9 THEN parse_num_integer(s, num, read_digits(s, p))
    ELSE Err(unexpected_character(Offset(s, p), s[p]), p + 1)

\* parse_num up to the conversion: the literal it assembles.
parse_num_literal(s, p) ==
    IF AtEnd(s, p) THEN Err(unexpected_eof, p)
    ELSE IF s[p] = MINUS THEN parse_num_unsigned(s, p + 1, <<MINUS>>)
    ELSE parse_num_unsigned(s, p, <<>>)

parse_num_parsed(lit, n) ==
    IF n.ok THEN Ok(n.val, lit.pos) ELSE Err(unable_to_parse_number(lit.val), lit.pos)

parse_num_convert(lit) == IF ~lit.ok THEN lit ELSE parse_num_parsed(lit, ParseF64(lit.val))

parse_num(s, p) == parse_num_convert(parse_num_literal(s, p))

(***************************************************************************)
(* The value grammar.                                                      *)
(***************************************************************************)
RECURSIVE parse_value(_, _)
RECURSIVE parse_array_loop(_, _, _)
RECURSIVE parse_object_loop(_, _, _)

\* A variant of parse_array_next that takes a comma directly before the
\* closing bracket.
parse_array_next_trailing_comma(s, p, result) ==
    IF AtEnd(s, p) THEN Err(unexpected_eof, p)
    ELSE IF s[p] = ARRAY_END THEN Ok(result, p + 1)
    ELSE IF s[p] = COMMA /\ ~AtEnd(s, p + 1) /\ s[p + 1] = ARRAY_END THEN Ok(result, p + 2)
    ELSE IF s[p] = COMMA THEN parse_array_loop(s, p + 1, result)
    ELSE Err(unexpected_character(Offset(s, p), s[p]), p + 1)

\* parse_array after an element and the whitespace behind it, at p.
parse_array_next(s, p, result) ==
    IF AtEnd(s, p) THEN Err(unexpected_eof, p)
    ELSE IF s[p] = ARRAY_END THEN Ok(result, p + 1)
    ELSE IF s[p] = COMMA THEN parse_array_loop(s, p + 1, result)
    ELSE Err(unexpected_character(Offset(s, p), s[p]), p + 1)

parse_array_push(s, v, result) ==
    IF ~v.ok THEN v
    ELSE parse_array_next(s, consume_spaces(s, v.pos), Append(result, v.val))

parse_array_loop(s, p, result) ==
    parse_array_push(s, parse_value(s, consume_spaces(s, p)), result)

parse_array_first(s, p) ==
    IF AtEnd(s, p) THEN Err(unexpected_eof, p)
    ELSE IF s[p] = ARRAY_END THEN Ok(<<>>, p + 1)
    ELSE parse_array_loop(s, p, <<>>)

parse_array_opened(s, open) ==
    IF ~open.ok THEN open ELSE parse_array_first(s, consume_spaces(s, open.pos))

parse_array(s, p) == parse_array_opened(s, read_known_char(s, p, ARRAY_START))

\* parse_object after a member and the whitespace behind it, at p.
parse_object_next(s, p, result) ==
    IF AtEnd(s, p) THEN Err(unexpected_eof, p)
    ELSE IF s[p] = OBJECT_END THEN Ok(result, p + 1)
    ELSE IF s[p] = COMMA THEN parse_object_loop(s, p + 1, result)
    ELSE Err(unexpected_character(Offset(s, p), s[p]), p + 1)

parse_object_insert(s, key, value, result) ==
    IF ~value.ok THEN value
    ELSE parse_object_next(s, consume_spaces(s, value.pos),
                           HashMapInsert(result, key, value.val))

parse_object_colon(s, key, colon, result) ==
    IF ~colon.ok THEN colon
    ELSE parse_object_insert(s, key, parse_value(s, consume_spaces(s, colon.pos)), result)

parse_object_key(s, key, result) ==
    IF ~key.ok THEN key
    ELSE parse_object_colon(s, key.val,
                            read_known_char(s, consume_spaces(s, key.pos), COLON), result)

parse_object_loop(s, p, result) ==
    parse_object_key(s, parse_str(s, consume_spaces(s, p)), result)

\* parse_object after the opening brace: no whitespace is skipped before
\* the test for the closing brace.
parse_object_opened(s, open) ==
    IF ~open.ok THEN open
    ELSE IF AtEnd(s, open.pos) THEN Err(unexpected_eof, open.pos)
    ELSE IF s[open.pos] = OBJECT_END THEN Ok(EmptyMap, open.pos + 1)
    ELSE parse_object_loop(s, open.pos, EmptyMap)

parse_object(s, p) == parse_object_opened(s, read_known_char(s, p, OBJECT_START))

\* Wraps the payload of a successful sub-parse in its JSONValue variant.
WrapObject(r) == IF r.ok THEN Ok(JSONObject(r.val), r.pos) ELSE r
WrapString(r) == IF r.ok THEN Ok(JSONString(r.val), r.pos) ELSE r
WrapBool(r) == IF r.ok THEN Ok(JSONBool(r.val), r.pos) ELSE r
WrapNull(r) == IF r.ok THEN Ok(JSONNull, r.pos) ELSE r
WrapNumber(r) == IF r.ok THEN Ok(JSONNumber(r.val), r.pos) ELSE r
WrapArray(r) == IF r.ok THEN Ok(JSONArray(r.val), r.pos) ELSE r

parse_value(s, p) ==
    IF AtEnd(s, p) THEN Err(empty_string_provided, p)
    ELSE CASE s[p] = OBJECT_START -> WrapObject(parse_object(s, p))
           [] s[p] = QUOTE -> WrapString(parse_str(s, p))
           [] s[p] = TRUE_START -> WrapBool(parse_true(s, p))
           [] s[p] = FALSE_START -> WrapBool(parse_false(s, p))
           [] s[p] = NULL_START -> WrapNull(parse_null(s, p))
           [] s[p] = MINUS \/ (s[p] >= DIGIT_0 /\ s[p] <= DIGIT_9) ->
                WrapNumber(parse_num(s, p))
           [] s[p] = ARRAY_START -> WrapArray(parse_array(s, p))
           [] OTHER -> unwrap_next(s, p, Err(unexpected_character(Offset(s, p), s[p]), p + 1))

\* A variant of parse_json that returns the value without looking at what
\* follows it.
parse_json_unchecked(s) == parse_value(s, consume_spaces(s, 1))

\* parse_json after the value and the whitespace behind it, at p.
parse_json_end(s, val, p) ==
    IF AtEnd(s, p) THEN Ok(val.val, p)
    ELSE Err(unexpected_character(Offset(s, p), s[p]), p + 1)

parse_json_value(s, val) ==
    IF ~val.ok THEN val ELSE parse_json_end(s, val, consume_spaces(s, val.pos))

parse_json(s) == parse_json_value(s, parse_value(s, consume_spaces(s, 1)))

(***************************************************************************)
(* The state machine.  input is the text handed to the parser; origin      *)
(* records how the text was drawn; called names the entry point that has   *)
(* run on it ("none" before the call) and outcome is what it returned.     *)
(* The test module calls the productions on a fresh cursor over the text,  *)
(* lib.rs calls parse_json; each is one action.                            *)
(***************************************************************************)
NotCalled == [err |-> NoError, ok |-> FALSE, panic |-> FALSE, pos |-> 0, val |-> NoValue]

Returns(name, r) ==
    /\ called = "none"
    /\ called' = name
    /\ outcome' = r
    /\ UNCHANGED <<input, origin>>

Call_parse_json == Returns("parse_json", parse_json(input))

Call_parse_value == Returns("parse_value", parse_value(input, 1))

Call_parse_num == Returns("parse_num", parse_num(input, 1))

Call_parse_str == Returns("parse_str", parse_str(input, 1))

Call_parse_array == Returns("parse_array", parse_array(input, 1))

Call_parse_object == Returns("parse_object", parse_object(input, 1))

Call_parse_true == Returns("parse_true", parse_true(input, 1))

Call_parse_false == Returns("parse_false", parse_false(input, 1))

Call_parse_null == Returns("parse_null", parse_null(input, 1))

Next ==
    \/ Call_parse_json
    \/ Call_parse_value
    \/ Call_parse_num
    \/ Call_parse_str
    \/ Call_parse_array
    \/ Call_parse_object
    \/ Call_parse_true
    \/ Call_parse_false
    \/ Call_parse_null

\* All texts over an alphabet of at most n characters.
TextsUpTo(alphabet, n) == UNION {[1..k -> alphabet] : k \in 0..n}

NoDoc == <<"NoDoc">>

Drawn(shape, doc) == [doc |-> doc, shape |-> shape]

(***************************************************************************)
(* Spec: every text of at most MaxLen characters over an alphabet with     *)
(* whitespace, brackets, a comma, a quote, a digit, a letter and a         *)
(* two-byte character.                                                     *)
(***************************************************************************)
MaxLen == 4

Alphabet == {32, 10, 91, 93, 44, 34, 49, 97, 233}

Init ==
    /\ input \in TextsUpTo(Alphabet, MaxLen)
    /\ origin = Drawn("raw", NoDoc)
    /\ called = "none"
    /\ outcome = NotCalled

Spec == Init /\ [][Next]_vars

(***************************************************************************)
(* SpecNum: every text of at most MaxNumLen characters over the characters *)
(* of the number grammar ('-', '+', '.', '0', '1', 'e', 'E'), handed to    *)
(* parse_num, parse_value and parse_json.                                  *)
(***************************************************************************)
MaxNumLen == 5

NumAlphabet == {45, 43, 46, 48, 49, 101, 69}

InitNum ==
    /\ input \in TextsUpTo(NumAlphabet, MaxNumLen)
    /\ origin = Drawn("raw", NoDoc)
    /\ called = "none"
    /\ outcome = NotCalled

NextNum ==
    \/ Call_parse_num
    \/ Call_parse_value
    \/ Call_parse_json

SpecNum == InitNum /\ [][NextNum]_vars

(***************************************************************************)
(* SpecStr: string texts.  A text is an opening quote, at most MaxPieces   *)
(* pieces and a tail (a closing quote, nothing, or a closing quote and     *)
(* one more character).  A piece is a character, a control character, a    *)
(* backslash with one character, or a \u escape with four hexadecimal      *)
(* digits; it carries its text and the characters JSON says it stands for. *)
(***************************************************************************)
MaxPieces == 2

Piece(kind, text, value) == [kind |-> kind, text |-> text, value |-> value]

\* 'a', a space, DEL and a two-byte character.
PlainPieces == {Piece("char", <<c>>, <<c>>) : c \in {97, 32, 127, 233}}

\* U+0000, line feed and U+001F.
ControlPieces == {Piece("control", <<c>>, <<>>) : c \in {0, 10, 31}}

\* \" \\ \/ \f \n \r \t \b and the character each stands for.
EscapePieces ==
    {Piece("escape", <<92, e[1]>>, <<e[2]>>) :
        e \in {<<34, 34>>, <<92, 92>>, <<47, 47>>, <<102, 12>>,
               <<110, 10>>, <<114, 13>>, <<116, 9>>, <<98, 8>>}}

\* \x \a \0 \U and a backslash before a two-byte character.
BadEscapePieces == {Piece("bad_escape", <<92, c>>, <<>>) : c \in {120, 97, 48, 85, 233}}

\* \u0041, \uc328, \uD7FF and \uE000: code units that are scalar values.
UnicodePieces ==
    {Piece("unicode", <<92, 117>> \o u[1], <<u[2]>>) :
        u \in {<<<<48, 48, 52, 49>>, 65>>, <<<<99, 51, 50, 56>>, 49960>>,
               <<<<68, 55, 70, 70>>, 55295>>, <<<<69, 48, 48, 48>>, 57344>>}}

\* \uD800 \ud83d \uDBFF: high surrogates.
HighSurrogatePieces ==
    {Piece("high", <<92, 117>> \o u[1], <<u[2]>>) :
        u \in {<<<<68, 56, 48, 48>>, 55296>>, <<<<100, 56, 51, 100>>, 55357>>,
               <<<<68, 66, 70, 70>>, 56319>>}}

\* \uDC00 \uDE00 \uDFFF: low surrogates.
LowSurrogatePieces ==
    {Piece("low", <<92, 117>> \o u[1], <<u[2]>>) :
        u \in {<<<<68, 67, 48, 48>>, 56320>>, <<<<68, 69, 48, 48>>, 56832>>,
               <<<<68, 70, 70, 70>>, 57343>>}}

Pieces ==
    PlainPieces \cup ControlPieces \cup EscapePieces \cup BadEscapePieces
        \cup UnicodePieces \cup HighSurrogatePieces \cup LowSurrogatePieces

Tails == {<<34>>, <<>>, <<34, 97>>}

RECURSIVE PiecesText(_)
PiecesText(pieces) ==
    IF pieces = <<>> THEN <<>> ELSE Head(pieces).text \o PiecesText(Tail(pieces))

StrDoc(pieces, tail) == [pieces |-> pieces, tail |-> tail]

StrDocs == {StrDoc(ps, tl) : ps \in TextsUpTo(Pieces, MaxPieces), tl \in Tails}

StrText(doc) == <<34>> \o PiecesText(doc.pieces) \o doc.tail

InitStr ==
    /\ origin \in {Drawn("string", d) : d \in StrDocs}
    /\ input = StrText(origin.doc)
    /\ called = "none"
    /\ outcome = NotCalled

NextStr ==
    \/ Call_parse_str
    \/ Call_parse_value
    \/ Call_parse_json

SpecStr == InitStr /\ [][NextStr]_vars

(***************************************************************************)
(* Documents: JSON texts built from the grammar.  An element is a text of  *)
(* the grammar with the value JSON gives it and a flag telling that no     *)
(* object without members occurs in it.  A document is an atom (a literal, *)
(* a number or a string), an array of elements or an object of members (a  *)
(* key and an element each; keys may repeat), written with the whitespace  *)
(* pad at every place the grammar allows whitespace.                        *)
(***************************************************************************)
MaxNodes == 3

Element(text, value, plain) == <<text, value, plain>>

Doc(kind, keys, items, pad) == [items |-> items, keys |-> keys, kind |-> kind, pad |-> pad]

\* null, true, false, 10 and "\ta".
Atoms ==
    { Element(NULL, JSONNull, TRUE),
      Element(BOOL_TRUE, JSONBool(TRUE), TRUE),
      Element(BOOL_FALSE, JSONBool(FALSE), TRUE),
      Element(<<49, 48>>, JSONNumber(<<1, 1>>), TRUE),
      Element(<<34, 92, 116, 97, 34>>, JSONString(<<9, 97>>), TRUE) }

\* The keys "a" and "b".
Keys == {<<97>>, <<98>>}

Pads == {<<>>, <<32>>}

RECURSIVE Join(_, _)
Join(texts, sep) ==
    IF texts = <<>> THEN <<>>
    ELSE IF Len(texts) = 1 THEN texts[1]
    ELSE texts[1] \o sep \o Join(Tail(texts), sep)

KeyText(key) == <<34>> \o key \o <<34>>

\* The texts of a container's elements or members, in order.
MemberTexts(doc) ==
    [i \in 1..Len(doc.items) |->
        IF doc.kind = "object"
        THEN KeyText(doc.keys[i]) \o doc.pad \o <<58>> \o doc.pad \o doc.items[i][1]
        ELSE doc.items[i][1]]

Opening(doc) == IF doc.kind = "object" THEN <<123>> ELSE <<91>>
Closing(doc) == IF doc.kind = "object" THEN <<125>> ELSE <<93>>

Separator(pad) == pad \o <<44>> \o pad

DocText(doc) ==
    IF doc.kind = "atom" THEN doc.items[1][1]
    ELSE IF doc.items = <<>> THEN Opening(doc) \o doc.pad \o Closing(doc)
    ELSE Opening(doc) \o doc.pad \o Join(MemberTexts(doc), Separator(doc.pad))
            \o doc.pad \o Closing(doc)

\* The value a document stands for.  An array stands for its elements'
\* values in order; an object maps each key that occurs to the value of
\* the key's last member.
LastMember(doc, key) ==
    CHOOSE i \in 1..Len(doc.keys) :
        /\ doc.keys[i] = key
        /\ \A j \in (i + 1)..Len(doc.keys) : doc.keys[j] # key

KeysOf(doc) == {doc.keys[i] : i \in 1..Len(doc.keys)}

DocValue(doc) ==
    IF doc.kind = "atom" THEN doc.items[1][2]
    ELSE IF doc.kind = "array"
         THEN <<"JSONArray", [i \in 1..Len(doc.items) |-> doc.items[i][2]]>>
         ELSE <<"JSONObject", [k \in KeysOf(doc) |-> doc.items[LastMember(doc, k)][2]]>>

\* No object without members occurs in the document.
DocPlain(doc) ==
    /\ ~(doc.kind = "object" /\ doc.items = <<>>)
    /\ \A i \in 1..Len(doc.items) : doc.items[i][3]

ElementOf(doc) == Element(DocText(doc), DocValue(doc), DocPlain(doc))

RECURSIVE DocsOfSize(_, _, _)
RECURSIVE ElementListsOfSize(_, _, _)

ContainersOfSize(n, pad, atoms) ==
    {Doc("array", <<>>, l, pad) : l \in ElementListsOfSize(n - 1, pad, atoms)}
        \cup UNION {{Doc("object", ks, l, pad) : ks \in [1..Len(l) -> Keys]} :
                       l \in ElementListsOfSize(n - 1, pad, atoms)}

DocsOfSize(n, pad, atoms) ==
    IF n = 1
    THEN {Doc("atom", <<>>, <<a>>, pad) : a \in atoms} \cup ContainersOfSize(1, pad, atoms)
    ELSE ContainersOfSize(n, pad, atoms)

ElementListsOfSize(n, pad, atoms) ==
    IF n = 0 THEN {<<>>}
    ELSE UNION {{<<ElementOf(d)>> \o l :
                    d \in DocsOfSize(k, pad, atoms),
                    l \in ElementListsOfSize(n - k, pad, atoms)} :
                   k \in 1..n}

\* The documents of at most n nodes over the given atoms.
DocsUpTo(n, atoms) == UNION {DocsOfSize(k, pad, atoms) : k \in 1..n, pad \in Pads}

(***************************************************************************)
(* SpecGen: the text of every document of at most MaxNodes nodes, with and *)
(* without whitespace, also around the document.                           *)
(***************************************************************************)
InitGen ==
    /\ origin \in {Drawn("valid", d) : d \in DocsUpTo(MaxNodes, Atoms)}
    /\ input = origin.doc.pad \o DocText(origin.doc) \o origin.doc.pad
    /\ called = "none"
    /\ outcome = NotCalled

NextGen ==
    \/ Call_parse_json
    \/ Call_parse_value

SpecGen == InitGen /\ [][NextGen]_vars

(***************************************************************************)
(* SpecDefect: the text of an array or an object with one defect: a comma  *)
(* before the closing bracket, a comma after the opening bracket, two      *)
(* neighbours with no comma between them, a member whose key is not a      *)
(* string, a member with no colon after its key.  The text stands alone,   *)
(* or as the element of an array, or as the member of an object.           *)
(***************************************************************************)
Defect(kind, at, key) == [at |-> at, key |-> key, kind |-> kind]

\* 1, null, a bare a and [] in the place of a key.
NonStringKeys == {<<49>>, NULL, <<97>>, <<91, 93>>}

Wraps == {"none", "array", "object"}

\* Two neighbouring numbers with nothing between them read as one number.
Merges(doc, i) ==
    /\ doc.kind = "array"
    /\ doc.pad = <<>>
    /\ doc.items[i][2][1] = "JSONNumber"
    /\ doc.items[i + 1][2][1] = "JSONNumber"

\* The defective texts are made of arrays and objects of numbers and strings.
DefectAtoms == {a \in Atoms : a[2][1] \in {"JSONNumber", "JSONString"}}

Containers == {d \in DocsUpTo(MaxNodes, DefectAtoms) : d.kind # "atom"}

Defects(doc) ==
    {Defect("leading_comma", 0, <<>>)}
        \cup {Defect("trailing_comma", 0, <<>>) : i \in {1} \cap DOMAIN doc.items}
        \cup {Defect("missing_comma", i, <<>>) :
                 i \in {j \in 1..(Len(doc.items) - 1) : ~Merges(doc, j)}}
        \cup {Defect("non_string_key", i, k) :
                 i \in {j \in DOMAIN doc.items : doc.kind = "object"}, k \in NonStringKeys}
        \cup {Defect("missing_colon", i, <<>>) :
                 i \in {j \in DOMAIN doc.items : doc.kind = "object"}}

DefectMemberTexts(doc, defect) ==
    [i \in 1..Len(doc.items) |->
        IF defect.at = i /\ defect.kind = "non_string_key"
        THEN defect.key \o doc.pad \o <<58>> \o doc.pad \o doc.items[i][1]
        ELSE IF defect.at = i /\ defect.kind = "missing_colon"
        THEN KeyText(doc.keys[i]) \o doc.pad \o doc.pad \o doc.items[i][1]
        ELSE MemberTexts(doc)[i]]

DefectBody(doc, defect, members) ==
    IF defect.kind = "leading_comma"
    THEN <<44>> \o doc.pad \o Join(members, Separator(doc.pad))
    ELSE IF defect.kind = "trailing_comma"
    THEN Join(members, Separator(doc.pad)) \o doc.pad \o <<44>>
    ELSE IF defect.kind = "missing_comma"
    THEN Join(SubSeq(members, 1, defect.at), Separator(doc.pad)) \o doc.pad
             \o Join(SubSeq(members, defect.at + 1, Len(members)), Separator(doc.pad))
    ELSE Join(members, Separator(doc.pad))

DefectText(doc, defect) ==
    Opening(doc) \o doc.pad \o DefectBody(doc, defect, DefectMemberTexts(doc, defect))
        \o doc.pad \o Closing(doc)

Wrap(text, wrap) ==
    IF wrap = "array" THEN <<91>> \o text \o <<93>>
    ELSE IF wrap = "object" THEN <<123, 34, 97, 34, 58>> \o text \o <<125>>
    ELSE text

DefectDoc(defect, wrap) == [defect |-> defect, wrap |-> wrap]

InitDefect ==
    /\ \E d \in Containers, w \in Wraps :
          \E f \in Defects(d) :
             /\ origin = Drawn("defect", DefectDoc(f, w))
             /\ input = Wrap(DefectText(d, f), w)
    /\ called = "none"
    /\ outcome = NotCalled

NextDefect ==
    \/ Call_parse_json
    \/ Call_parse_value

SpecDefect == InitDefect /\ [][NextDefect]_vars

(***************************************************************************)
(* SpecTrunc: the text of a string, an array or an object, cut before its  *)
(* last character: the input ends with the string, array or object still   *)
(* open.                                                                   *)
(***************************************************************************)
IsString(doc) == doc.kind = "atom" /\ doc.items[1][2][1] = "JSONString"

Closable == {d \in DocsUpTo(MaxNodes, Atoms) : d.kind # "atom" \/ IsString(d)}

TruncDoc(kind, cut) == [cut |-> cut, kind |-> kind]

InitTrunc ==
    /\ \E d \in Closable :
          \E cut \in 1..(Len(DocText(d)) - 1) :
             /\ origin = Drawn("truncated", TruncDoc(d.kind, cut))
             /\ input = SubSeq(DocText(d), 1, cut)
    /\ called = "none"
    /\ outcome = NotCalled

NextTrunc ==
    \/ Call_parse_json
    \/ Call_parse_value

SpecTrunc == InitTrunc /\ [][NextTrunc]_vars

(***************************************************************************)
(* SpecEsc: string texts with one escape: an opening quote, at most        *)
(* MaxLead characters (one or two bytes each), a backslash, the body of    *)
(* the escape and, or not, a closing quote.  The body is nothing (the      *)
(* text ends at the backslash), one character, or a 'u' with up to four    *)
(* characters among hexadecimal digits, a letter that is no digit, a quote *)
(* and a two-byte character.                                               *)
(***************************************************************************)
MaxLead == 1

LeadAlphabet == {97, 233}

\* 0, 8, D, g, a quote and a two-byte character.
EscAlphabet == {48, 56, 68, 103, 34, 233}

\* Nothing, x, n, U and a two-byte character after the backslash, or a 'u'
\* and what follows it.
EscBodies ==
    {<<>>, <<120>>, <<110>>, <<85>>, <<233>>}
        \cup {<<UNICODE_ESCAPE>> \o d : d \in TextsUpTo(EscAlphabet, 4)}

EscRests == {<<>>, <<34>>}

EscDoc(lead, body, rest) == [body |-> body, lead |-> lead, rest |-> rest]

EscText(doc) == <<34>> \o doc.lead \o <<92>> \o doc.body \o doc.rest

InitEsc ==
    /\ \E lead \in TextsUpTo(LeadAlphabet, MaxLead), body \in EscBodies, rest \in EscRests :
          origin = Drawn("escape", EscDoc(lead, body, rest))
    /\ input = EscText(origin.doc)
    /\ called = "none"
    /\ outcome = NotCalled

NextEsc ==
    \/ Call_parse_str
    \/ Call_parse_value
    \/ Call_parse_json

SpecEsc == InitEsc /\ [][NextEsc]_vars

(***************************************************************************)
(* SpecSafe: the texts of Spec, of SpecNum and of SpecEsc together, which  *)
(* reach every unwrap and every subtraction of the parser.                 *)
(***************************************************************************)
InitSafe == Init \/ InitNum \/ InitEsc

NextSafe ==
    \/ Call_parse_json
    \/ Call_parse_value
    \/ Call_parse_str
    \/ Call_parse_num

SpecSafe == InitSafe /\ [][NextSafe]_vars

(***************************************************************************)
(* SpecTail: the text of a document followed by text that is not part of   *)
(* it: nothing, ",2", ", ", "!", "]" or "}".  The documents are the atoms, *)
(* and the arrays and objects of numbers and strings.  Every production is *)
(* called on the text.                                                     *)
(***************************************************************************)
Suffixes == {<<>>, <<44, 50>>, <<44, 32>>, <<33>>, <<93>>, <<125>>}

TailDocs == DocsUpTo(1, Atoms) \cup DocsUpTo(MaxNodes, DefectAtoms)

TailDoc(kind, len, suffix) == [kind |-> kind, len |-> len, suffix |-> suffix]

InitTail ==
    /\ \E d \in TailDocs, x \in Suffixes :
          /\ origin = Drawn("tail", TailDoc(d.kind, Len(DocText(d)), x))
          /\ input = DocText(d) \o x
    /\ called = "none"
    /\ outcome = NotCalled

SpecTail == InitTail /\ [][Next]_vars

(***************************************************************************)
(* The loops of the parser, one iteration at a time.  An iteration starts  *)
(* with the cursor at p and what the loop has collected so far in acc; it  *)
(* either goes round again with the cursor and the collection it leaves,   *)
(* or leaves the loop with the Result the function returns.                *)
(***************************************************************************)
Iterating(acc, p) == [err |-> NoError, ok |-> FALSE, panic |-> FALSE, pos |-> p, val |-> acc]

Continue(p, acc) == [continue |-> TRUE, r |-> Iterating(acc, p)]

Return(r) == [continue |-> FALSE, r |-> r]

consume_spaces_iteration(s, p, acc) ==
    IF AtEnd(s, p) THEN Return(Ok(NoValue, p))
    ELSE IF is_whitespace(s[p]) THEN Continue(p + 1, acc)
    ELSE Return(Ok(NoValue, p))

\* A variant of read_digits_iteration that pushes the digit and leaves it
\* in the input.
read_digits_iteration_no_next(s, p, acc) ==
    IF AtEnd(s, p)
    THEN Return(IF Len(acc) > 0 THEN Ok(acc, p) ELSE Err(unexpected_eof, p))
    ELSE IF is_digit_10(s[p]) THEN Continue(p, Append(acc, s[p]))
    ELSE Return(Ok(acc, p))

read_digits_iteration(s, p, acc) ==
    IF AtEnd(s, p)
    THEN Return(IF Len(acc) > 0 THEN Ok(acc, p) ELSE Err(unexpected_eof, p))
    ELSE IF is_digit_10(s[p]) THEN Continue(p + 1, Append(acc, s[p]))
    ELSE Return(Ok(acc, p))

parse_str_iteration_escape(e, acc) ==
    IF ~e.ok THEN Return(e) ELSE Continue(e.pos, acc \o e.val)

parse_str_iteration(s, p, acc) ==
    IF AtEnd(s, p) THEN Return(Err(unexpected_eof, p))
    ELSE IF s[p] = QUOTE THEN Return(Ok(acc, p + 1))
    ELSE IF s[p] = ESCAPE THEN parse_str_iteration_escape(read_escape_char(s, p + 1), acc)
    ELSE IF s[p] >= CTRL_FIRST /\ s[p] <= CTRL_LAST
         THEN Return(Err(unexpected_character(Offset(s, p), s[p]), p + 1))
    ELSE Continue(p + 1, Append(acc, s[p]))

parse_array_iteration_next(s, p, acc) ==
    IF AtEnd(s, p) THEN Return(Err(unexpected_eof, p))
    ELSE IF s[p] = ARRAY_END THEN Return(Ok(acc, p + 1))
    ELSE IF s[p] = COMMA THEN Continue(p + 1, acc)
    ELSE Return(Err(unexpected_character(Offset(s, p), s[p]), p + 1))

parse_array_iteration_value(s, v, acc) ==
    IF ~v.ok THEN Return(v)
    ELSE parse_array_iteration_next(s, consume_spaces(s, v.pos), Append(acc, v.val))

parse_array_iteration(s, p, acc) ==
    parse_array_iteration_value(s, parse_value(s, consume_spaces(s, p)), acc)

parse_object_iteration_next(s, p, acc) ==
    IF AtEnd(s, p) THEN Return(Err(unexpected_eof, p))
    ELSE IF s[p] = OBJECT_END THEN Return(Ok(acc, p + 1))
    ELSE IF s[p] = COMMA THEN Continue(p + 1, acc)
    ELSE Return(Err(unexpected_character(Offset(s, p), s[p]), p + 1))

parse_object_iteration_value(s, key, value, acc) ==
    IF ~value.ok THEN Return(value)
    ELSE parse_object_iteration_next(s, consume_spaces(s, value.pos),
                                     HashMapInsert(acc, key, value.val))

parse_object_iteration_colon(s, key, colon, acc) ==
    IF ~colon.ok THEN Return(colon)
    ELSE parse_object_iteration_value(s, key, parse_value(s, consume_spaces(s, colon.pos)),
                                      acc)

parse_object_iteration_key(s, key, acc) ==
    IF ~key.ok THEN Return(key)
    ELSE parse_object_iteration_colon(s, key.val,
             read_known_char(s, consume_spaces(s, key.pos), COLON), acc)

parse_object_iteration(s, p, acc) ==
    parse_object_iteration_key(s, parse_str(s, consume_spaces(s, p)), acc)

Loops == {"consume_spaces", "read_digits", "parse_str", "parse_array", "parse_object"}

\* What called holds while the loop of a function runs.
InLoop ==
    [loop \in Loops |->
        CASE loop = "consume_spaces" -> "loop of consume_spaces"
          [] loop = "read_digits" -> "loop of read_digits"
          [] loop = "parse_str" -> "loop of parse_str"
          [] loop = "parse_array" -> "loop of parse_array"
          [] loop = "parse_object" -> "loop of parse_object"]

\* What a loop has collected when it starts.
Collected(loop) == IF loop = "parse_object" THEN EmptyMap ELSE <<>>

Iteration(loop, s, p, acc) ==
    CASE loop = "consume_spaces" -> consume_spaces_iteration(s, p, acc)
      [] loop = "read_digits" -> read_digits_iteration(s, p, acc)
      [] loop = "parse_str" -> parse_str_iteration(s, p, acc)
      [] loop = "parse_array" -> parse_array_iteration(s, p, acc)
      [] loop = "parse_object" -> parse_object_iteration(s, p, acc)

\* The cursor reaches the loop of a function, at the start of the text.
EnterLoop ==
    \E loop \in Loops :
        /\ called = "none"
        /\ called' = InLoop[loop]
        /\ outcome' = Iterating(Collected(loop), 1)
        /\ UNCHANGED <<input, origin>>

LoopStep(loop, it) ==
    /\ called' = (IF it.continue THEN called ELSE loop)
    /\ outcome' = it.r
    /\ UNCHANGED <<input, origin>>

\* One iteration of the loop that runs.
StepLoop ==
    \E loop \in Loops :
        /\ called = InLoop[loop]
        /\ LoopStep(loop, Iteration(loop, input, outcome.pos, outcome.val))

(***************************************************************************)
(* SpecLoop: the loops on every text of at most MaxTokens tokens: a space, *)
(* a digit, a two-byte character, the escape \n, a quote, the string "a",  *)
(* the key "a" with its colon, a comma and the closing brackets.  The      *)
(* program runs on: a loop that has not been left takes its next iteration *)
(* again and again.  LoopFairness is weak fairness of NextLoop with the     *)
(* enabling condition written out: NextLoop can change the state exactly   *)
(* while no loop has been left, given that an iteration that goes round    *)
(* moves the cursor (LoopAdvances).                                        *)
(***************************************************************************)
MaxTokens == 3

Tokens ==
    { <<32>>, <<49>>, <<233>>, <<92, 110>>, <<34>>, <<34, 97, 34>>, <<34, 97, 34, 58>>,
      <<44>>, <<93>>, <<125>> }

InitLoop ==
    /\ \E tokens \in TextsUpTo(Tokens, MaxTokens) :
          /\ origin = Drawn("loop", tokens)
          /\ input = PiecesText([k \in 1..Len(tokens) |-> [text |-> tokens[k]]])
    /\ called = "none"
    /\ outcome = NotCalled

NextLoop ==
    \/ EnterLoop
    \/ StepLoop

LoopFairness == []<>(called \in Loops) \/ []<><<NextLoop>>_vars

SpecLoop == InitLoop /\ [][NextLoop]_vars /\ LoopFairness

(***************************************************************************)
(* Vocabulary of the properties.                                           *)
(***************************************************************************)
\* The four JSON whitespace characters: tab, line feed, carriage return, space.
JsonWhitespace == {9, 10, 13, 32}

\* The index of the first character at or after p that is not whitespace,
\* Len(s) + 1 when there is none.
FirstNonWhitespace(s, p) ==
    CHOOSE k \in p..(Len(s) + 1) :
        /\ k = Len(s) + 1 \/ s[k] \notin JsonWhitespace
        /\ \A j \in p..(k - 1) : s[j] \in JsonWhitespace

OnlyWhitespaceFrom(s, p) == FirstNonWhitespace(s, p) = Len(s) + 1

Failed(r) == ~r.ok /\ ~r.panic

(***************************************************************************)
(* C1: parse_json returns Ok only when, after the leading whitespace, one  *)
(* value and the trailing whitespace, the text is exhausted; when a        *)
(* character remains it returns the "unexpected character" error naming    *)
(* the first remaining non-whitespace character and its byte offset.       *)
(***************************************************************************)
C1_TrailingInputRejected ==
    called = "parse_json" =>
        LET v == parse_value(input, FirstNonWhitespace(input, 1))
            k == FirstNonWhitespace(input, v.pos)
        IN /\ outcome.ok =>
                /\ v.ok
                /\ outcome.val = v.val
                /\ k = Len(input) + 1
                /\ outcome.pos = Len(input) + 1
           /\ (v.ok /\ k <= Len(input)) =>
                /\ Failed(outcome)
                /\ outcome.err = unexpected_character(Offset(input, k), input[k])

\* A string holding a two-byte character, then a character:
\* the offset reported is the byte offset, not the character index.
C1_Witness ==
    /\ called = "parse_json"
    /\ input = <<34, 233, 34, 97>>
    /\ outcome.err = unexpected_character(4, 97)

(***************************************************************************)
(* C7: on an empty or all-whitespace text parse_json fails.  As stated,    *)
(* with the "ended unexpectedly" error (C7_EndedUnexpectedly); the code    *)
(* reports "Empty string provided" (C7_EmptyStringProvided).               *)
(***************************************************************************)
C7_EndedUnexpectedly ==
    (called = "parse_json" /\ OnlyWhitespaceFrom(input, 1)) =>
        Failed(outcome) /\ outcome.err = unexpected_eof

C7_EmptyStringProvided ==
    (called = "parse_json" /\ OnlyWhitespaceFrom(input, 1)) =>
        Failed(outcome) /\ outcome.err = make_err("Empty string provided")

C7_Witness ==
    /\ called = "parse_json"
    /\ input = <<32, 10>>
    /\ Failed(outcome)
    /\ outcome.pos = 3

(***************************************************************************)
(* The number grammar as a predicate on a whole text t: an optional '-',  *)
(* then "0" or a digit 1-9 followed by digits, then optionally '.' and one *)
(* or more digits, then optionally 'e' or 'E', an optional sign and one or *)
(* more digits.  The sign ends at a, the integer part at b, the fraction   *)
(* at c, and the exponent at the end of t.                                 *)
(***************************************************************************)
AsciiDigits == 48..57

AllDigits(t, from, to) == \A k \in from..to : t[k] \in AsciiDigits

MatchesNumber(t) ==
    \E a \in 0..1, b \in 1..Len(t), c \in 1..Len(t) :
        /\ a < b /\ b <= c
        /\ a = 1 => t[1] = 45
        /\ AllDigits(t, a + 1, b)
        /\ t[a + 1] = 48 => b = a + 1
        /\ c > b => (t[b + 1] = 46 /\ c >= b + 2 /\ AllDigits(t, b + 2, c))
        /\ Len(t) > c =>
              /\ t[c + 1] \in {101, 69}
              /\ \E g \in 0..1 :
                    /\ Len(t) >= c + 2 + g
                    /\ g = 1 => t[c + 2] \in {43, 45}
                    /\ AllDigits(t, c + 2 + g, Len(t))

HasNumberPrefix(s) == \E k \in 1..Len(s) : MatchesNumber(SubSeq(s, 1, k))

\* The prefix of length k matches the grammar and the character after it
\* does not commit the parser to a longer number: it is no digit, it is no
\* '.' unless the prefix has a fraction or an exponent, and it is no 'e' or
\* 'E' unless the prefix has an exponent.
Has(t, chars) == \E j \in 1..Len(t) : t[j] \in chars

CompleteNumberPrefix(s, k) ==
    /\ MatchesNumber(SubSeq(s, 1, k))
    /\ k < Len(s) =>
          /\ s[k + 1] \notin AsciiDigits
          /\ s[k + 1] = 46 => Has(SubSeq(s, 1, k), {46, 101, 69})
          /\ s[k + 1] \in {101, 69} => Has(SubSeq(s, 1, k), {101, 69})

(***************************************************************************)
(* C3: parse_num succeeds exactly on the texts that start with a prefix    *)
(* matching the number grammar.  As stated (C3_AnyMatchingPrefix) this     *)
(* fails: "00" starts with the match "0" and is rejected.  What holds      *)
(* (C3_CompleteMatchingPrefix): parse_num succeeds exactly when a matching *)
(* prefix is followed by nothing that commits it to a longer number, it    *)
(* then stops right after that prefix, and it rejects a leading '+', a     *)
(* digit after a leading '0', a bare '-', a '.' without a digit and an     *)
(* 'e'/'E' (with optional sign) without a digit, and accepts "0".          *)
(***************************************************************************)
C3_AnyMatchingPrefix ==
    called = "parse_num" => (outcome.ok <=> HasNumberPrefix(input))

C3_CompleteMatchingPrefix ==
    called = "parse_num" =>
        /\ ~outcome.panic
        /\ outcome.ok <=> \E k \in 1..Len(input) : CompleteNumberPrefix(input, k)
        /\ outcome.ok => CompleteNumberPrefix(input, outcome.pos - 1)
        /\ ~outcome.ok => ~\E k \in 1..Len(input) : CompleteNumberPrefix(input, k)
        /\ (Len(input) >= 1 /\ input[1] = 43) => ~outcome.ok
        /\ (Len(input) >= 2 /\ input[1] = 48 /\ input[2] \in AsciiDigits) => ~outcome.ok
        /\ (Len(input) >= 3 /\ input[1] = 45 /\ input[2] = 48 /\ input[3] \in AsciiDigits)
              => ~outcome.ok
        /\ input = <<45>> => ~outcome.ok
        /\ \A k \in 1..Len(input) :
              (/\ MatchesNumber(SubSeq(input, 1, k))
               /\ ~Has(SubSeq(input, 1, k), {46, 101, 69})
               /\ k < Len(input) /\ input[k + 1] = 46
               /\ (k + 1 = Len(input) \/ input[k + 2] \notin AsciiDigits)) => ~outcome.ok
        /\ \A k \in 1..Len(input) :
              (/\ MatchesNumber(SubSeq(input, 1, k))
               /\ ~Has(SubSeq(input, 1, k), {101, 69})
               /\ k < Len(input) /\ input[k + 1] \in {101, 69}
               /\ \/ k + 1 = Len(input)
                  \/ input[k + 2] \notin AsciiDigits \cup {43, 45}
                  \/ /\ input[k + 2] \in {43, 45}
                     /\ (k + 2 = Len(input) \/ input[k + 3] \notin AsciiDigits)) => ~outcome.ok
        /\ input = <<48>> => outcome.ok

\* "1.0e1" is read to its end; its value is 10.
C3_Witness ==
    /\ called = "parse_num"
    /\ input = <<49, 46, 48, 101, 49>>
    /\ outcome.ok
    /\ outcome.val = <<1, 1>>
    /\ outcome.pos = 6

(***************************************************************************)
(* Strings: what a sequence of pieces stands for, and where it goes wrong. *)
(***************************************************************************)
RECURSIVE PiecesValue(_)
PiecesValue(pieces) ==
    IF pieces = <<>> THEN <<>> ELSE Head(pieces).value \o PiecesValue(Tail(pieces))

GoodKinds == {"char", "escape", "unicode"}

AllGood(pieces) == \A k \in 1..Len(pieces) : pieces[k].kind \in GoodKinds

\* The k-th piece is the first one that is not a character, one of the
\* eight escapes or a \u escape of a scalar value.
FirstBad(pieces, k) ==
    /\ k \in 1..Len(pieces)
    /\ pieces[k].kind \notin GoodKinds
    /\ AllGood(SubSeq(pieces, 1, k - 1))

\* The byte offset of the k-th piece in the text: after the opening quote.
PieceOffset(pieces, k) == 1 + Utf8Bytes(PiecesText(SubSeq(pieces, 1, k - 1)))

FromStrDoc == origin.shape = "string"

(***************************************************************************)
(* C8: a \u escape of a high surrogate directly followed by a \u escape of *)
(* a low surrogate is decoded into the one scalar value                    *)
(* 0x10000 + (high - 0xD800) * 0x400 + (low - 0xDC00), and the string      *)
(* parses.                                                                 *)
(***************************************************************************)
C8_SurrogatePairDecoded ==
    (/\ called = "parse_str"
     /\ FromStrDoc
     /\ Len(origin.doc.pieces) = 2
     /\ origin.doc.pieces[1].kind = "high"
     /\ origin.doc.pieces[2].kind = "low"
     /\ origin.doc.tail = <<34>>) =>
        /\ outcome.ok
        /\ outcome.val =
              <<65536 + (origin.doc.pieces[1].value[1] - 55296) * 1024
                      + (origin.doc.pieces[2].value[1] - 56320)>>

(***************************************************************************)
(* C9: in a string, a backslash followed by one of " \ / f n r t b appends *)
(* exactly one character (f U+000C, n U+000A, r U+000D, t U+0009,          *)
(* b U+0008, the others themselves) and consumes exactly two characters;   *)
(* a backslash followed by any other character except 'u' makes the parse  *)
(* fail with the "invalid escape sequence" error.                          *)
(***************************************************************************)
C9_SimpleEscapes ==
    (called = "parse_str" /\ FromStrDoc) =>
        LET ps == origin.doc.pieces
        IN /\ (AllGood(ps) /\ origin.doc.tail # <<>>) =>
                /\ outcome.ok
                /\ outcome.val = PiecesValue(ps)
                /\ outcome.pos = 2 + Len(PiecesText(ps)) + 1
           /\ \A k \in 1..Len(ps) :
                (FirstBad(ps, k) /\ ps[k].kind = "bad_escape") =>
                    /\ Failed(outcome)
                    /\ outcome.err.msg = "Invalid escape sequence"
                    /\ outcome.err.text = ps[k].text

\* "\b\x": the escape \b is decoded, then \x is refused.
C9_Witness ==
    /\ called = "parse_str"
    /\ input = <<34, 92, 98, 92, 120, 34>>
    /\ Failed(outcome)
    /\ outcome.err.msg = "Invalid escape sequence"
    /\ outcome.err.text = <<92, 120>>

(***************************************************************************)
(* C10: parse_str fails with the "unexpected character" error at an        *)
(* unescaped character U+0000..U+001F between the quotes, and appends      *)
(* every other character that is no quote and no backslash unchanged: a    *)
(* string without escapes parses to the characters between its quotes.     *)
(***************************************************************************)
C10_ControlCharacters ==
    (called = "parse_str" /\ FromStrDoc) =>
        LET ps == origin.doc.pieces
        IN /\ (\E k \in 1..Len(ps) : ps[k].kind = "control") => Failed(outcome)
           /\ \A k \in 1..Len(ps) :
                (FirstBad(ps, k) /\ ps[k].kind = "control") =>
                    outcome.err = unexpected_character(PieceOffset(ps, k), ps[k].text[1])
           /\ ((\A k \in 1..Len(ps) : ps[k].kind = "char") /\ origin.doc.tail # <<>>) =>
                /\ outcome.ok
                /\ outcome.val = SubSeq(input, 2, 1 + Len(ps))

\* A two-byte character, then U+001F: refused at byte offset 3.
C10_Witness ==
    /\ called = "parse_str"
    /\ input = <<34, 233, 31, 34>>
    /\ outcome.err = unexpected_character(3, 31)

\* The text of the document has no whitespace between the braces of an
\* empty object.
NoPaddedEmptyObject(doc) == doc.pad = <<>> \/ DocPlain(doc)

(***************************************************************************)
(* C2: for every text of the JSON grammar parse_json returns Ok with the   *)
(* value tree the text denotes.                                            *)
(***************************************************************************)
C2_GrammarTextsParse ==
    (called = "parse_json" /\ origin.shape = "valid") =>
        /\ outcome.ok
        /\ outcome.val = DocValue(origin.doc)

\* The same, for the texts without whitespace in an empty object.
C2_UnpaddedEmptyObjects ==
    (called = "parse_json" /\ origin.shape = "valid" /\ NoPaddedEmptyObject(origin.doc)) =>
        /\ outcome.ok
        /\ outcome.val = DocValue(origin.doc)

(***************************************************************************)
(* C4: when an object text has a key more than once, the parsed Object     *)
(* has one entry for the key, holding the value of the key's last          *)
(* occurrence; the number of entries is the number of distinct keys.       *)
(***************************************************************************)
C4_LastDuplicateKeyWins ==
    (/\ called = "parse_json"
     /\ origin.shape = "valid"
     /\ origin.doc.kind = "object"
     /\ NoPaddedEmptyObject(origin.doc)) =>
        LET doc == origin.doc
        IN /\ outcome.ok
           /\ outcome.val[1] = "JSONObject"
           /\ DOMAIN outcome.val[2] = KeysOf(doc)
           /\ Cardinality(DOMAIN outcome.val[2]) = Cardinality(KeysOf(doc))
           /\ \A k \in KeysOf(doc) :
                 outcome.val[2][k] = doc.items[LastMember(doc, k)][2]

\* {"a":10,"a":true}: one entry, "a" holds true.
C4_Witness ==
    /\ called = "parse_json"
    /\ input = <<123, 34, 97, 34, 58, 49, 48, 44, 34, 97, 34, 58, 116, 114, 117, 101, 125>>
    /\ outcome.ok
    /\ outcome.val = JSONObject(<<97>> :> JSONBool(TRUE))

(***************************************************************************)
(* C5: in arrays and in objects a comma directly before the closing        *)
(* bracket, a comma directly after the opening bracket and two elements or *)
(* members with no comma between them make the parse fail; in objects a    *)
(* member whose key is not a string, or whose key is not followed by a     *)
(* colon, makes the parse fail too.                                        *)
(***************************************************************************)
C5_DefectsRejected ==
    (called # "none" /\ origin.shape = "defect") => Failed(outcome)

\* [10,] is rejected at the closing bracket, where a value has to start.
C5_Witness ==
    /\ called = "parse_json"
    /\ origin.shape = "defect"
    /\ origin.doc.defect.kind = "trailing_comma"
    /\ input = <<91, 49, 48, 44, 93>>
    /\ outcome.err = unexpected_character(4, 93)

(***************************************************************************)
(* C6: for every input that ends while a string, an array or an object is  *)
(* still open, parse_json fails and the reason is the 'ended unexpectedly' *)
(* message.                                                                *)
(***************************************************************************)
C6_UnclosedEndsUnexpectedly ==
    (called = "parse_json" /\ origin.shape = "truncated") =>
        /\ Failed(outcome)
        /\ outcome.err.msg = ERROR_ENDED_UNEXPECTEDLY

(***************************************************************************)
(* C11: every call ends by returning exactly one Result, Ok with a value   *)
(* or Err with a reason; no path panics: every unwrap finds a character    *)
(* and no offset subtraction of the escape error paths goes below zero.    *)
(***************************************************************************)
C11_OneResultNoPanic ==
    called # "none" =>
        /\ ~outcome.panic
        /\ outcome.ok => outcome.err = NoError
        /\ ~outcome.ok => (outcome.val = NoValue /\ outcome.err.msg # NoError.msg)

\* "\x with nothing before the backslash: the subtraction i - 2 gives 0.
C11_Witness ==
    /\ called = "parse_json"
    /\ input = <<34, 92, 120>>
    /\ outcome.err = invalid_escape_sequence(0, <<92, 120>>)

(***************************************************************************)
(* The escape of a text of SpecEsc.                                        *)
(***************************************************************************)
HexDigits == (48..57) \cup (65..70) \cup (97..102)

IsUnicodeEscape(doc) == doc.body # <<>> /\ doc.body[1] = 117

\* The characters of the text after the 'u' of the escape.
AfterU(doc) == SubSeq(doc.body \o doc.rest, 2, Len(doc.body \o doc.rest))

\* The place among the first four characters of f of the first one that is
\* no hexadecimal digit, 0 when there is none.
FirstNonHex(f) ==
    IF \E j \in 1..4 : j <= Len(f) /\ f[j] \notin HexDigits
    THEN CHOOSE j \in 1..4 :
            /\ j <= Len(f) /\ f[j] \notin HexDigits
            /\ \A k \in 1..(j - 1) : f[k] \in HexDigits
    ELSE 0

\* The byte offset of the backslash: the opening quote and the characters
\* before the escape precede it.
BackslashOffset(doc) == 1 + Utf8Bytes(doc.lead)

(***************************************************************************)
(* C12: a \u escape that is not followed by four hexadecimal digits,       *)
(* because one of the four characters is no hexadecimal digit or because   *)
(* the input ends before the fourth, fails with an 'invalid escape         *)
(* sequence' error that names the offset and the sequence read so far.     *)
(* As stated (C12_PartialEscapeInvalid) this fails when the input ends:    *)
(* the reason is then 'String ended unexpectedly'.  What holds             *)
(* (C12_NonHexInvalidEndUnexpected): a character that is no hexadecimal    *)
(* digit gives 'invalid escape sequence' with the offset of the backslash  *)
(* and the sequence up to and including that character; the end of input   *)
(* before it gives 'String ended unexpectedly'.                            *)
(***************************************************************************)
C12_PartialEscapeInvalid ==
    (/\ called = "parse_str" /\ origin.shape = "escape"
     /\ IsUnicodeEscape(origin.doc)
     /\ (FirstNonHex(AfterU(origin.doc)) # 0 \/ Len(AfterU(origin.doc)) < 4)) =>
        /\ Failed(outcome)
        /\ outcome.err.msg = "Invalid escape sequence"

C12_NonHexInvalidEndUnexpected ==
    (called # "none" /\ origin.shape = "escape" /\ IsUnicodeEscape(origin.doc)) =>
        LET f == AfterU(origin.doc)
            j == FirstNonHex(f)
        IN /\ j # 0 =>
                /\ Failed(outcome)
                /\ outcome.err = invalid_escape_sequence(BackslashOffset(origin.doc),
                                                         <<92, 117>> \o SubSeq(f, 1, j))
           /\ (j = 0 /\ Len(f) < 4) =>
                /\ Failed(outcome)
                /\ outcome.err = unexpected_eof

\* A quote, a two-byte character and \u0g: the backslash is at byte
\* offset 3, the sequence read is \u0g.
C12_Witness ==
    /\ called = "parse_str"
    /\ input = <<34, 233, 92, 117, 48, 103>>
    /\ outcome.err = invalid_escape_sequence(3, <<92, 117, 48, 103>>)

(***************************************************************************)
(* C13: whenever a production (a literal, a number, a string, an array, an *)
(* object, parse_value) succeeds, the cursor is immediately after the last *)
(* character of the text it parsed: the characters that follow are still   *)
(* there for the caller.                                                   *)
(***************************************************************************)
C13_CursorAfterParsedText ==
    (/\ called \notin {"none", "parse_json"}
     /\ origin.shape = "tail"
     /\ outcome.ok) => outcome.pos = origin.doc.len + 1

\* parse_true on "true, " leaves the cursor at the comma.
C13_Witness ==
    /\ called = "parse_true"
    /\ input = <<116, 114, 117, 101, 44, 32>>
    /\ outcome.ok
    /\ outcome.pos = 5

(***************************************************************************)
(* C14: the 'Unable to parse number' error is unreachable: the literal     *)
(* parse_num hands to the conversion always matches the number grammar, so *)
(* parse_json never returns an error with that reason.                     *)
(***************************************************************************)
C14_UnableToParseUnreachable ==
    called = "parse_json" => outcome.err.msg # unable_to_parse_number(<<>>).msg

(***************************************************************************)
(* C15: the parse is one forward pass that ends: the cursor never goes     *)
(* back, every iteration of the loops of consume_spaces, read_digits,      *)
(* parse_str, parse_array and parse_object either takes at least one       *)
(* character or leaves the loop, and every loop is left in the end.        *)
(***************************************************************************)
LoopRuns == \E loop \in Loops : called = InLoop[loop]

LoopAdvances ==
    LoopRuns =>
        /\ outcome'.pos >= outcome.pos
        /\ outcome'.pos <= Len(input) + 1
        /\ called' = called => outcome'.pos > outcome.pos

C15_ForwardPassEnds == [][LoopAdvances]_vars /\ <>(called \in Loops)

\* The loop of parse_str on a two-byte character, the escape \n and the
\* closing quote, after its third iteration: the first took one character,
\* the second two, and the third left the loop behind the quote.
C15_Witness ==
    /\ called = "parse_str"
    /\ origin.shape = "loop"
    /\ input = <<233, 92, 110, 34>>
    /\ outcome = Ok(<<233, 10>>, 5)

\* The loops, run one iteration at a time from the start of the text,
\* return what the functions return.
LoopsAgree ==
    (origin.shape = "loop" /\ called \in Loops) =>
        outcome = CASE called = "consume_spaces" -> Ok(NoValue, consume_spaces(input, 1))
                    [] called = "read_digits" -> read_digits(input, 1)
                    [] called = "parse_str" -> parse_str_loop(input, 1, <<>>)
                    [] called = "parse_array" -> parse_array_loop(input, 1, <<>>)
                    [] called = "parse_object" -> parse_object_loop(input, 1, EmptyMap)

(***************************************************************************)
(* SpecEmpty: the empty containers: an opening bracket, a run of at most   *)
(* MaxSpace whitespace characters (space, tab, LF, CR) and the closing     *)
(* bracket of the same kind.                                               *)
(***************************************************************************)
MaxSpace == 3

EmptyDoc(kind, ws) == [kind |-> kind, ws |-> ws]

EmptyText(doc) ==
    IF doc.kind = "object" THEN <<OBJECT_START>> \o doc.ws \o <<OBJECT_END>>
    ELSE <<ARRAY_START>> \o doc.ws \o <<ARRAY_END>>

InitEmpty ==
    /\ \E kind \in {"array", "object"}, ws \in TextsUpTo(JsonWhitespace, MaxSpace) :
          /\ origin = Drawn("empty", EmptyDoc(kind, ws))
          /\ input = EmptyText(EmptyDoc(kind, ws))
    /\ called = "none"
    /\ outcome = NotCalled

SpecEmpty == InitEmpty /\ [][Next]_vars

(***************************************************************************)
(* C16: whitespace between the brackets of an empty container is accepted  *)
(* for objects as it is for arrays: for every run ws of space, tab, LF and *)
(* CR, parse_json returns the empty Object for { ws } and the empty Array  *)
(* for [ ws ].                                                             *)
(***************************************************************************)
EmptyValue(doc) == IF doc.kind = "object" THEN JSONObject(EmptyMap) ELSE JSONArray(<<>>)

C16_SpaceInEmptyContainers ==
    (called = "parse_json" /\ origin.shape = "empty") =>
        /\ outcome.ok
        /\ outcome.val = EmptyValue(origin.doc)

\* The same for the arrays, and for the objects with nothing between the
\* braces.
C16_SpaceInEmptyArrays ==
    (/\ called = "parse_json"
     /\ origin.shape = "empty"
     /\ origin.doc.kind = "array" \/ origin.doc.ws = <<>>) =>
        /\ outcome.ok
        /\ outcome.val = EmptyValue(origin.doc)

\* An object with whitespace between its braces is refused at the closing
\* brace, where parse_object expects the quote of a key.
C16_SpaceInEmptyObjectRefused ==
    (/\ called = "parse_json"
     /\ origin.shape = "empty"
     /\ origin.doc.kind = "object"
     /\ origin.doc.ws # <<>>) =>
        outcome.err = expected_character(1 + Len(origin.doc.ws), OBJECT_END, QUOTE)

(***************************************************************************)
(* C17: every 'invalid escape sequence' error reports the byte offset of   *)
(* the backslash that starts the escape, on the three error paths of       *)
(* read_escape_char: a character that is no hexadecimal digit in \uXXXX,   *)
(* four hexadecimal digits that are no Unicode scalar value, and a         *)
(* backslash followed by an unrecognised character.                        *)
(***************************************************************************)
InvalidEscape(r) == Failed(r) /\ r.err.msg = invalid_escape_sequence(0, <<>>).msg

C17_EscapeErrorAtBackslash ==
    (called # "none" /\ origin.shape = "escape" /\ InvalidEscape(outcome)) =>
        outcome.err.position = BackslashOffset(origin.doc)

\* The path of the character that is no hexadecimal digit reports the
\* offset of the backslash.
C17_NonHexAtBackslash ==
    (/\ called # "none" /\ origin.shape = "escape" /\ InvalidEscape(outcome)
     /\ IsUnicodeEscape(origin.doc)
     /\ FirstNonHex(AfterU(origin.doc)) # 0) =>
        outcome.err.position = BackslashOffset(origin.doc)

\* The two other paths report the offset one byte before the backslash.
C17_OtherPathsBeforeBackslash ==
    (/\ called # "none" /\ origin.shape = "escape" /\ InvalidEscape(outcome)
     /\ ~IsUnicodeEscape(origin.doc) \/ FirstNonHex(AfterU(origin.doc)) = 0) =>
        outcome.err.position = BackslashOffset(origin.doc) - 1

\* The three paths are taken: \u0g, the surrogate \uD800 and \x, each
\* after a two-byte character, where the backslash is at byte offset 3.
C17_PathsTaken ==
    (called = "parse_str" /\ origin.shape = "escape" /\ origin.doc.lead = <<233>>) =>
        /\ origin.doc.body = <<117, 48, 103>> =>
              outcome.err = invalid_escape_sequence(3, <<92, 117, 48, 103>>)
        /\ origin.doc.body = <<117, 68, 56, 48, 48>> =>
              outcome.err = invalid_escape_sequence(2, <<92, 117, 68, 56, 48, 48>>)
        /\ origin.doc.body = <<120>> =>
              outcome.err = invalid_escape_sequence(2, <<92, 120>>)

(***************************************************************************)
(* SpecStrict: every text of at most MaxStrict tokens, where a token is a  *)
(* piece of JSON (a space, the digits 1 and 0, '-', '.', 'e', '+', the     *)
(* empty string, a lone quote, the key "" with its colon, a bracket, a     *)
(* comma, a colon, true, null) or a piece that JSON does not have outside  *)
(* strings: the whitespace U+000B, U+000C and U+00A0, the Arabic-Indic     *)
(* digit one U+0661, True, NULL and a single quote.                        *)
(***************************************************************************)
MaxStrict == 3

JsonTokens ==
    { <<32>>, <<49>>, <<48>>, <<45>>, <<46>>, <<101>>, <<43>>, <<34, 34>>, <<34>>,
      <<34, 34, 58>>, <<91>>, <<93>>, <<123>>, <<125>>, <<44>>, <<58>>,
      <<116, 114, 117, 101>>, <<110, 117, 108, 108>> }

ForeignTokens ==
    { <<11>>, <<12>>, <<160>>, <<1633>>, <<84, 114, 117, 101>>, <<78, 85, 76, 76>>, <<39>> }

InitStrict ==
    /\ \E tokens \in TextsUpTo(JsonTokens \cup ForeignTokens, MaxStrict) :
          /\ origin = Drawn("tokens", tokens)
          /\ input = PiecesText([k \in 1..Len(tokens) |-> [text |-> tokens[k]]])
    /\ called = "none"
    /\ outcome = NotCalled

NextStrict == Call_parse_json

SpecStrict == InitStrict /\ [][NextStrict]_vars

(***************************************************************************)
(* The JSON grammar (RFC 8259), as the set of places where a production    *)
(* that starts at p can end: the index after its last character.           *)
(***************************************************************************)
Literals == {<<116, 114, 117, 101>>, <<102, 97, 108, 115, 101>>, <<110, 117, 108, 108>>}

StartsWith(s, p, w) == p + Len(w) - 1 <= Len(s) /\ SubSeq(s, p, p + Len(w) - 1) = w

LiteralEnds(s, p) == {p + Len(w) : w \in {v \in Literals : StartsWith(s, p, v)}}

NumberEnds(s, p) == {q \in (p + 1)..(Len(s) + 1) : MatchesNumber(SubSeq(s, p, q - 1))}

SimpleEscapes == {34, 92, 47, 98, 102, 110, 114, 116}

\* The index after the closing quote of the string whose characters start
\* at p, 0 when the characters from p on do not close a string.
RECURSIVE CharsEnd(_, _)
CharsEnd(s, p) ==
    IF p > Len(s) THEN 0
    ELSE IF s[p] = 34 THEN p + 1
    ELSE IF s[p] = 92
         THEN IF p + 1 <= Len(s) /\ s[p + 1] \in SimpleEscapes THEN CharsEnd(s, p + 2)
              ELSE IF /\ p + 5 <= Len(s)
                      /\ s[p + 1] = 117
                      /\ \A k \in 2..5 : s[p + k] \in HexDigits
                   THEN CharsEnd(s, p + 6)
              ELSE 0
    ELSE IF s[p] < 32 THEN 0
    ELSE CharsEnd(s, p + 1)

StringEnds(s, p) ==
    IF p <= Len(s) /\ s[p] = 34 /\ CharsEnd(s, p + 1) # 0 THEN {CharsEnd(s, p + 1)} ELSE {}

Is(s, k, ch) == k <= Len(s) /\ s[k] = ch

RECURSIVE ValueEnds(_, _), ElementsEnds(_, _), MembersEnds(_, _)

\* After a value that ends at q: whitespace, then ']' or ',' and the
\* elements that follow.
ElementsAfter(s, k) ==
    IF Is(s, k, 93) THEN {k + 1}
    ELSE IF Is(s, k, 44) THEN ElementsEnds(s, FirstNonWhitespace(s, k + 1))
    ELSE {}

ElementsEnds(s, p) ==
    UNION {ElementsAfter(s, FirstNonWhitespace(s, q)) : q \in ValueEnds(s, p)}

ArrayEnds(s, p) ==
    IF ~Is(s, p, 91) THEN {}
    ELSE IF Is(s, FirstNonWhitespace(s, p + 1), 93) THEN {FirstNonWhitespace(s, p + 1) + 1}
    ELSE ElementsEnds(s, FirstNonWhitespace(s, p + 1))

\* After a member that ends at q: whitespace, then '}' or ',' and the
\* members that follow.
MembersAfter(s, k) ==
    IF Is(s, k, 125) THEN {k + 1}
    ELSE IF Is(s, k, 44) THEN MembersEnds(s, FirstNonWhitespace(s, k + 1))
    ELSE {}

\* After a key that ends at q: whitespace, ':', whitespace and the value.
MemberValueEnds(s, k) ==
    IF Is(s, k, 58) THEN ValueEnds(s, FirstNonWhitespace(s, k + 1)) ELSE {}

MembersEnds(s, p) ==
    UNION {MembersAfter(s, FirstNonWhitespace(s, r)) :
              r \in UNION {MemberValueEnds(s, FirstNonWhitespace(s, q)) :
                              q \in StringEnds(s, p)}}

ObjectEnds(s, p) ==
    IF ~Is(s, p, 123) THEN {}
    ELSE IF Is(s, FirstNonWhitespace(s, p + 1), 125) THEN {FirstNonWhitespace(s, p + 1) + 1}
    ELSE MembersEnds(s, FirstNonWhitespace(s, p + 1))

ValueEnds(s, p) ==
    LiteralEnds(s, p) \cup NumberEnds(s, p) \cup StringEnds(s, p)
        \cup ArrayEnds(s, p) \cup ObjectEnds(s, p)

\* The text is one JSON value with whitespace around it.
IsJsonText(s) == \E q \in ValueEnds(s, FirstNonWhitespace(s, 1)) : OnlyWhitespaceFrom(s, q)

\* Characters that JSON has inside strings only.
ForeignChars == {11, 12, 160, 1633, 84, 78, 39}

(***************************************************************************)
(* C18: parse_json accepts no text outside the JSON grammar: when it       *)
(* returns Ok the whole input is one JSON value with only space, tab, LF   *)
(* or CR around it.  In particular a text that holds, outside a string,    *)
(* another whitespace character (U+000B, U+000C, U+00A0), a digit that is  *)
(* not ASCII, a literal in another case or a single quote is refused.      *)
(***************************************************************************)
C18_OnlyGrammarAccepted ==
    called = "parse_json" =>
        /\ outcome.ok => IsJsonText(input)
        /\ (Has(input, ForeignChars) /\ ~Has(input, {34})) => Failed(outcome)

\* U+00A0 inside a string is taken: the text is a JSON string.
C18_Witness ==
    /\ called = "parse_json"
    /\ origin.shape = "tokens"
    /\ input = <<34, 160, 34>>
    /\ outcome.ok
    /\ outcome.val = JSONString(<<160>>)

\* U+00A0 before a number is refused where it stands, at byte offset 1
\* after a space.
C18_ForeignSpaceRefused ==
    (called = "parse_json" /\ input = <<32, 160, 49>>) =>
        outcome.err = unexpected_character(1, 160)

\* The other way round, for the texts without an object: what the grammar
\* has, parse_json accepts.
C18_GrammarAccepted ==
    (called = "parse_json" /\ IsJsonText(input) /\ ~Has(input, {123})) => outcome.ok

====
